---- MODULE Spec2Model ----
(***************************************************************************)
(* A model of the App component of src/src/app.rs (yew TodoMVC).           *)
(*                                                                         *)
(* Strings are sequences of one-character strings, so that str::trim is    *)
(* computed and not assumed.  Indices are usize values counted from 0, as *)
(* in the source; At(v, i) is v[i].                                        *)
(***************************************************************************)
EXTENDS Integers, Sequences, FiniteSets, TLC

VARIABLES
    todos,          \* App.todos : Vec<Todo>
    value,          \* App.value : String, the draft of the new-todo input
    focus_edit,     \* App.focus_edit
    route,          \* App.props.route
    storage,        \* App.storage.is_some()
    local,          \* the browser's local storage item under STORAGE_KEY
    render_pending, \* update/change/create returned: view + rendered still to run
    panicked,       \* an indexing panic has ended the component
    first_render,   \* the next rendered() is the component's first
    focused,        \* history: where the latest rendered() moved the focus
    last,           \* history: the event processed last
    pre             \* history: the component's fields before that event

vars == <<todos, value, focus_edit, route, storage, local, render_pending,
          panicked, first_render, focused, last, pre>>

----------------------------------------------------------------------------
\* Bounds and input sets

MaxTodos == 2

\* the longer lists of SpecList, explored with fewer inputs
MaxList == 3

WhiteSpace == {" "}

\* what the user can have typed into the new-todo input (InputData.value)
DraftInputs == { <<>>, <<" ">>, <<" ", "a", " ">> }

\* what the user can have typed into an edit input (InputData.value)
EditInputs == { <<>>, <<" ", "b">> }

\* the inputs of SpecList
ListDraftInputs == { <<"a">> }

ListEditInputs == { <<>> }

----------------------------------------------------------------------------
\* Strings

RECURSIVE trim_start(_)
trim_start(s) ==
    IF s # <<>> /\ Head(s) \in WhiteSpace THEN trim_start(Tail(s)) ELSE s

RECURSIVE trim_end(_)
trim_end(s) ==
    IF s # <<>> /\ s[Len(s)] \in WhiteSpace
    THEN trim_end(SubSeq(s, 1, Len(s) - 1))
    ELSE s

trim(s) == trim_end(trim_start(s))

----------------------------------------------------------------------------
\* Vec helpers (usize indices from 0)

At(v, index) == v[index + 1]

\* a Vec from its items given by position
ToVec(f) == SubSeq(f, 1, Len(f))

\* Vec::remove(index)
VecRemove(v, index) ==
    ToVec([k \in 1..(Len(v) - 1) |-> IF k <= index THEN v[k] ELSE v[k + 1]])

----------------------------------------------------------------------------
\* Todo

Todo_new(text) == [text |-> text, completed |-> FALSE, editing |-> FALSE]

\* #[derive(Serialize)]: the editing field is skipped
Todo_serialize(todo) == [text |-> todo.text, completed |-> todo.completed]

\* mutant: completed is skipped like editing
Todo_deserialize_SkipCompleted(rec) ==
    [text |-> rec.text, completed |-> FALSE, editing |-> FALSE]

\* #[derive(Deserialize)]: the skipped editing field takes bool::default()
Todo_deserialize(rec) ==
    [text |-> rec.text, completed |-> rec.completed, editing |-> FALSE]

AppRoute == {"All", "Active", "Completed"}

----------------------------------------------------------------------------
\* The storage item: absent, a text that is no list of Todo records, or the
\* JSON text of a list of {text, completed} records.

Absent == [kind |-> "absent", items |-> <<>>]

Garbage == [kind |-> "garbage", items |-> <<>>]

\* Json(&self.todos) as stored by storage.store
Json_store(v) ==
    [kind |-> "json",
     items |-> ToVec([k \in 1..Len(v) |-> Todo_serialize(v[k])])]

\* storage.restore(STORAGE_KEY) matched against Json(Ok(todos))
Json_restore(item) ==
    IF item.kind = "json"
    THEN [todos |-> ToVec([k \in 1..Len(item.items) |->
                              Todo_deserialize(item.items[k])]),
          ok |-> TRUE]
    ELSE [todos |-> <<>>, ok |-> FALSE]

----------------------------------------------------------------------------
\* The component's fields as one record

Self == [todos |-> todos, value |-> value, focus_edit |-> focus_edit,
         route |-> route, storage |-> storage, local |-> local,
         panicked |-> panicked]

\* an index out of bounds: the thread panics, nothing after it runs
Panic(self) == [self EXCEPT !.panicked = TRUE]

all_completed(self) ==
    \A k \in 1..Len(self.todos) : self.todos[k].completed

----------------------------------------------------------------------------
\* App::create

\* mutant: the restored value is unwrapped instead of matched
create_Unwrap(props_route, storage_ok, item) ==
    [todos |-> IF storage_ok /\ Json_restore(item).ok
               THEN Json_restore(item).todos
               ELSE <<>>,
     value |-> <<>>,
     focus_edit |-> FALSE,
     route |-> props_route,
     storage |-> storage_ok,
     local |-> item,
     panicked |-> storage_ok /\ ~Json_restore(item).ok]

create(props_route, storage_ok, item) ==
    [todos |-> IF storage_ok
               THEN (IF Json_restore(item).ok
                     THEN Json_restore(item).todos
                     ELSE <<>>)
               ELSE <<>>,
     value |-> <<>>,
     focus_edit |-> FALSE,
     route |-> props_route,
     storage |-> storage_ok,
     local |-> item,
     panicked |-> FALSE]

----------------------------------------------------------------------------
\* App::update, one operator per arm of the match

\* (record fields are written in one fixed order throughout)
Msg(type, index, text) == [index |-> index, text |-> text, type |-> type]

update_Nop(self) == self

\* mutant: the draft is trimmed as it is typed
update_Update_Trimmed(self, s) == [self EXCEPT !.value = trim(s)]

update_Update(self, s) == [self EXCEPT !.value = s]

\* mutant: the draft is pushed untrimmed
update_Create_Untrimmed(self) ==
    IF trim(self.value) # <<>>
    THEN [self EXCEPT !.todos = Append(@, Todo_new(self.value)),
                      !.value = <<>>]
    ELSE self

\* mutant: the draft is cleared outside the if
update_Create_AlwaysClear(self) ==
    LET text == trim(self.value)
    IN  IF text # <<>>
        THEN [self EXCEPT !.todos = Append(@, Todo_new(text)),
                          !.value = <<>>]
        ELSE [self EXCEPT !.value = <<>>]

update_Create(self) ==
    LET text == trim(self.value)
    IN  IF text # <<>>
        THEN [self EXCEPT !.todos = Append(@, Todo_new(text)),
                          !.value = <<>>]
        ELSE self

\* mutant: Vec::swap_remove, which moves the last item into the hole
update_Delete_SwapRemove(self, index) ==
    IF index >= Len(self.todos) THEN Panic(self)
    ELSE [self EXCEPT !.todos =
            ToVec([k \in 1..(Len(@) - 1) |->
                      IF k = index + 1 THEN @[Len(@)] ELSE @[k]])]

\* mutant: an index out of range is ignored
update_Delete_Checked(self, index) ==
    IF index >= Len(self.todos) THEN self
    ELSE [self EXCEPT !.todos = VecRemove(@, index)]

update_Delete(self, index) ==
    IF index >= Len(self.todos) THEN Panic(self)
    ELSE [self EXCEPT !.todos = VecRemove(@, index)]

\* mutant: the item is marked completed instead of flipped
update_Toggle_Set(self, index) ==
    IF index >= Len(self.todos) THEN Panic(self)
    ELSE [self EXCEPT !.todos[index + 1].completed = TRUE]

\* mutant: the toggled item moves to the end of the list
update_Toggle_MoveToEnd(self, index) ==
    IF index >= Len(self.todos) THEN Panic(self)
    ELSE [self EXCEPT !.todos =
            Append(VecRemove(@, index),
                   [At(@, index) EXCEPT !.completed = ~At(self.todos, index).completed])]

update_Toggle(self, index) ==
    IF index >= Len(self.todos) THEN Panic(self)
    ELSE [self EXCEPT !.todos[index + 1].completed = ~@]

\* mutant: every item is flipped
update_ToggleAll_Flip(self) ==
    [self EXCEPT !.todos =
        ToVec([k \in 1..Len(@) |-> [@[k] EXCEPT !.completed = ~@]])]

update_ToggleAll(self) ==
    LET completed == ~all_completed(self)
    IN  [self EXCEPT !.todos =
            ToVec([k \in 1..Len(@) |-> [@[k] EXCEPT !.completed = completed]])]

\* mutant: retain with the predicate inverted
update_ClearCompleted_Inverted(self) ==
    [self EXCEPT !.todos = SelectSeq(@, LAMBDA todo : todo.completed)]

update_ClearCompleted(self) ==
    [self EXCEPT !.todos = SelectSeq(@, LAMBDA todo : ~todo.completed)]

\* mutant: starting an edit ends the edit of every other item
update_StartEdit_Exclusive(self, index) ==
    IF index >= Len(self.todos) THEN Panic(self)
    ELSE [self EXCEPT !.todos =
                ToVec([k \in 1..Len(@) |-> [@[k] EXCEPT !.editing = (k = index + 1)]]),
                      !.focus_edit = TRUE]

update_StartEdit(self, index) ==
    IF index >= Len(self.todos) THEN Panic(self)
    ELSE [self EXCEPT !.todos[index + 1].editing = TRUE,
                      !.focus_edit = TRUE]

update_UpdateItem(self, index, s) ==
    IF index >= Len(self.todos) THEN Panic(self)
    ELSE [self EXCEPT !.todos[index + 1].text = s]

\* mutant: an item left with an empty text is removed, as TodoMVC asks
update_CompleteEdit_DropEmpty(self, index) ==
    IF index >= Len(self.todos) THEN Panic(self)
    ELSE IF trim(At(self.todos, index).text) = <<>>
         THEN [self EXCEPT !.todos = VecRemove(@, index)]
         ELSE [self EXCEPT !.todos[index + 1].editing = FALSE]

update_CompleteEdit(self, index) ==
    IF index >= Len(self.todos) THEN Panic(self)
    ELSE [self EXCEPT !.todos[index + 1].editing = FALSE]

update_match(self, msg) ==
    CASE msg.type = "Nop"            -> update_Nop(self)
      [] msg.type = "Update"         -> update_Update(self, msg.text)
      [] msg.type = "Create"         -> update_Create(self)
      [] msg.type = "Delete"         -> update_Delete(self, msg.index)
      [] msg.type = "Toggle"         -> update_Toggle(self, msg.index)
      [] msg.type = "ToggleAll"      -> update_ToggleAll(self)
      [] msg.type = "ClearCompleted" -> update_ClearCompleted(self)
      [] msg.type = "StartEdit"      -> update_StartEdit(self, msg.index)
      [] msg.type = "UpdateItem"     -> update_UpdateItem(self, msg.index, msg.text)
      [] msg.type = "CompleteEdit"   -> update_CompleteEdit(self, msg.index)

\* if let Some(storage) = self.storage.as_mut() { storage.store(..) }
update_store(self) ==
    IF self.storage
    THEN [self EXCEPT !.local = Json_store(self.todos)]
    ELSE self

\* mutant: without storage the message is dropped
update_NeedsStorage(self, msg) ==
    IF self.storage
    THEN (LET after == update_match(self, msg)
          IN  IF after.panicked THEN after ELSE update_store(after))
    ELSE self

\* mutant: the list is stored before the message is applied
update_StoreFirst(self, msg) ==
    update_match(update_store(self), msg)

update(self, msg) ==
    LET after == update_match(self, msg)
    IN  IF after.panicked THEN after ELSE update_store(after)

----------------------------------------------------------------------------
\* App::view: the rendered items and the messages its callbacks can send

\* mutant: the callbacks capture the position in the filtered view
view_todo_Position(self, index) ==
    LET todo == At(self.todos, index)
        shows(t) == \/ self.route = "All"
                    \/ self.route = "Active" /\ ~t.completed
                    \/ self.route = "Completed" /\ t.completed
    IN  IF shows(todo)
        THEN << [index |-> Cardinality({k \in 1..index : shows(self.todos[k])}),
                 text |-> todo.text,
                 completed |-> todo.completed,
                 edit_input |-> todo.editing] >>
        ELSE << >>

\* the <li> of one todo, or nothing when the route filters it out
view_todo(self, index) ==
    LET todo == At(self.todos, index)
    IN  IF \/ self.route = "All"
           \/ self.route = "Active" /\ ~todo.completed
           \/ self.route = "Completed" /\ todo.completed
        THEN << [index |-> index,
                 text |-> todo.text,
                 completed |-> todo.completed,
                 edit_input |-> todo.editing] >>
        ELSE << >>

\* {for (0..self.todos.len()).map(|index| self.view_todo(index))}
RECURSIVE view_list(_, _)
view_list(self, n) ==
    IF n = 0 THEN << >>
    ELSE view_list(self, n - 1) \o view_todo(self, n - 1)

view_main(self) ==
    [toggle_all |-> self.todos # << >>,
     checked |-> all_completed(self),
     list |-> view_list(self, Len(self.todos))]

\* mutant: the footer counts only the items the route shows
view_footer_Visible(self) ==
    LET completed == Cardinality({k \in 1..Len(self.todos) :
                                     /\ self.todos[k].completed
                                     /\ self.route # "Active"})
        not_completed == Len(self.todos) - completed
    IN  [completed |-> completed,
         not_completed |-> not_completed,
         clear_completed |-> completed > 0]

view_footer(self) ==
    LET completed == Cardinality({k \in 1..Len(self.todos) : self.todos[k].completed})
        not_completed == Len(self.todos) - completed
    IN  [completed |-> completed,
         not_completed |-> not_completed,
         clear_completed |-> completed > 0]

\* A callback is named by the message type it sends and the index its closure
\* captured; the text of Update and UpdateItem is what the event carries.
Callback(type, index) == [index |-> index, type |-> type]

\* callbacks of one rendered <li>
li_callbacks(li) ==
    {Callback("Toggle", li.index),
     Callback("StartEdit", li.index),
     Callback("Delete", li.index)}
    \cup (IF li.edit_input
          THEN {Callback("UpdateItem", li.index),
                Callback("CompleteEdit", li.index),
                Callback("Nop", 0)}
          ELSE {})

\* callbacks of the whole rendered view
view_callbacks(self) ==
    {Callback("Update", 0), Callback("Create", 0), Callback("Nop", 0)}
    \cup (IF self.todos # << >>
          THEN (IF view_main(self).toggle_all
                THEN {Callback("ToggleAll", 0)} ELSE {})
               \cup UNION {li_callbacks(view_main(self).list[k]) :
                              k \in 1..Len(view_main(self).list)}
               \cup (IF view_footer(self).clear_completed
                     THEN {Callback("ClearCompleted", 0)} ELSE {})
          ELSE {})

----------------------------------------------------------------------------
\* App::rendered and the elements its NodeRefs hold

NoElement == [index |-> 0, kind |-> "none"]

NewInput == [index |-> 0, kind |-> "new_input"]

EditInput(index) == [index |-> index, kind |-> "edit_input"]

\* the indices of the todos whose edit input is in the rendered view
edit_inputs(self) ==
    {view_main(self).list[k].index :
        k \in {j \in 1..Len(view_main(self).list) :
                  view_main(self).list[j].edit_input}}

\* What self.edit_input can hold after the view is applied.  Every rendered
\* edit input is given the same NodeRef (ref=self.edit_input.clone()), so it
\* holds one of them, whichever the framework bound last; it is empty when
\* no edit input is rendered.
edit_input_nodes(self) ==
    IF edit_inputs(self) = {}
    THEN {NoElement}
    ELSE {EditInput(index) : index \in edit_inputs(self)}

\* rendered(first_render) with self.edit_input holding node: the fields
\* after it and the element that ends up focused
\* mutant: the focus request is not cleared
App_rendered_KeepsFlag(self, first, node) ==
    IF self.focus_edit
    THEN IF node.kind = "none"
         THEN [focused |-> IF first THEN NewInput ELSE NoElement,
               self |-> [self EXCEPT !.panicked = TRUE]]
         ELSE [focused |-> node, self |-> self]
    ELSE [focused |-> IF first THEN NewInput ELSE NoElement, self |-> self]

App_rendered(self, first, node) ==
    IF self.focus_edit
    THEN IF node.kind = "none"
         THEN [focused |-> IF first THEN NewInput ELSE NoElement,
               self |-> [self EXCEPT !.focus_edit = FALSE, !.panicked = TRUE]]
         ELSE [focused |-> node,
               self |-> [self EXCEPT !.focus_edit = FALSE]]
    ELSE [focused |-> IF first THEN NewInput ELSE NoElement,
          self |-> self]

----------------------------------------------------------------------------
\* The state machine

\* a list an earlier session has stored
StoredList ==
    Json_store(<< [text |-> <<" ", "b">>, completed |-> TRUE, editing |-> FALSE],
                  Todo_new(<<"a">>) >>)

\* what local storage can hold under STORAGE_KEY when the page is opened
InitialItems == {Absent, Garbage, StoredList}

Install(self) ==
    /\ todos' = self.todos
    /\ value' = self.value
    /\ focus_edit' = self.focus_edit
    /\ route' = self.route
    /\ storage' = self.storage
    /\ local' = self.local
    /\ panicked' = self.panicked

\* the component right after App::create, before its first render
Created(self) ==
    /\ todos = self.todos
    /\ value = self.value
    /\ focus_edit = self.focus_edit
    /\ route = self.route
    /\ storage = self.storage
    /\ local = self.local
    /\ panicked = self.panicked
    /\ render_pending = TRUE
    /\ first_render = TRUE
    /\ focused = NoElement
    /\ last = Msg("create", 0, << >>)
    /\ pre = self

\* With local storage disabled the item is out of reach; it then holds the
\* list of an earlier session.
Init ==
    \E r \in AppRoute, ok \in BOOLEAN, item \in InitialItems :
        /\ ok \/ item = StoredList
        /\ Created(create(r, ok, item))

\* the page is loaded again at the same URL: App::create runs on what local
\* storage holds
Reload ==
    /\ ~render_pending
    /\ Install(create(route, storage, local))
    /\ render_pending' = TRUE
    /\ first_render' = TRUE
    /\ focused' = NoElement
    /\ last' = Msg("create", 0, << >>)
    /\ pre' = Self

\* one message sent by a callback of the current view, handled by App::update;
\* cap bounds the length of the list
Dispatch(msg, cap) ==
    /\ ~render_pending
    /\ ~panicked
    /\ Callback(msg.type, msg.index) \in view_callbacks(Self)
    /\ Len(update(Self, msg).todos) <= cap
    /\ Install(update(Self, msg))
    /\ render_pending' = ~update(Self, msg).panicked
    /\ focused' = NoElement
    /\ last' = msg
    /\ pre' = Self
    /\ UNCHANGED first_render

SendNop(cap) == Dispatch(Msg("Nop", 0, << >>), cap)

SendUpdate(drafts, cap) == \E s \in drafts : Dispatch(Msg("Update", 0, s), cap)

SendCreate(cap) == Dispatch(Msg("Create", 0, << >>), cap)

SendDelete(cap) ==
    \E index \in 0..(Len(todos) - 1) : Dispatch(Msg("Delete", index, << >>), cap)

SendToggle(cap) ==
    \E index \in 0..(Len(todos) - 1) : Dispatch(Msg("Toggle", index, << >>), cap)

SendToggleAll(cap) == Dispatch(Msg("ToggleAll", 0, << >>), cap)

SendClearCompleted(cap) == Dispatch(Msg("ClearCompleted", 0, << >>), cap)

SendStartEdit(cap) ==
    \E index \in 0..(Len(todos) - 1) : Dispatch(Msg("StartEdit", index, << >>), cap)

SendUpdateItem(edits, cap) ==
    \E index \in 0..(Len(todos) - 1), s \in edits :
        Dispatch(Msg("UpdateItem", index, s), cap)

SendCompleteEdit(cap) ==
    \E index \in 0..(Len(todos) - 1) :
        Dispatch(Msg("CompleteEdit", index, << >>), cap)

\* App::rendered, run after the view that follows create, update and change
rendered ==
    /\ render_pending
    /\ ~panicked
    /\ \E node \in edit_input_nodes(Self) :
        /\ Install(App_rendered(Self, first_render, node).self)
        /\ focused' = App_rendered(Self, first_render, node).focused
    /\ render_pending' = FALSE
    /\ first_render' = FALSE
    /\ last' = Msg("rendered", 0, << >>)
    /\ pre' = Self

\* mutant: a route change also clears the draft
change_ClearsDraft ==
    /\ ~render_pending
    /\ ~panicked
    /\ \E r \in AppRoute : route' = r
    /\ value' = << >>
    /\ render_pending' = TRUE
    /\ focused' = NoElement
    /\ last' = Msg("change", 0, << >>)
    /\ pre' = Self
    /\ UNCHANGED <<todos, focus_edit, storage, local, panicked, first_render>>

\* App::change: the router hands the component a route
change ==
    /\ ~render_pending
    /\ ~panicked
    /\ \E r \in AppRoute : route' = r
    /\ render_pending' = TRUE
    /\ focused' = NoElement
    /\ last' = Msg("change", 0, << >>)
    /\ pre' = Self
    /\ UNCHANGED <<todos, value, focus_edit, storage, local, panicked,
                   first_render>>

Next ==
    \/ SendNop(MaxTodos)
    \/ SendUpdate(DraftInputs, MaxTodos)
    \/ SendCreate(MaxTodos)
    \/ SendDelete(MaxTodos)
    \/ SendToggle(MaxTodos)
    \/ SendToggleAll(MaxTodos)
    \/ SendClearCompleted(MaxTodos)
    \/ SendStartEdit(MaxTodos)
    \/ SendUpdateItem(EditInputs, MaxTodos)
    \/ SendCompleteEdit(MaxTodos)
    \/ rendered
    \/ change
    \/ Reload

Spec == Init /\ [][Next]_vars

\* Longer lists, with local storage available and empty at the start and one
\* input text per field.
InitList ==
    \E r \in AppRoute : Created(create(r, TRUE, Absent))

NextList ==
    \/ SendNop(MaxList)
    \/ SendUpdate(ListDraftInputs, MaxList)
    \/ SendCreate(MaxList)
    \/ SendDelete(MaxList)
    \/ SendToggle(MaxList)
    \/ SendToggleAll(MaxList)
    \/ SendClearCompleted(MaxList)
    \/ SendStartEdit(MaxList)
    \/ SendUpdateItem(ListEditInputs, MaxList)
    \/ SendCompleteEdit(MaxList)
    \/ rendered
    \/ change
    \/ Reload

SpecList == InitList /\ [][NextList]_vars

\* A message handled by App::update whatever the view offers: one sent by a
\* callback of an earlier render, its index taken from the list as it was then.
DispatchAny(msg, cap) ==
    /\ ~render_pending
    /\ ~panicked
    /\ Len(update(Self, msg).todos) <= cap
    /\ Install(update(Self, msg))
    /\ render_pending' = ~update(Self, msg).panicked
    /\ focused' = NoElement
    /\ last' = msg
    /\ pre' = Self
    /\ UNCHANGED first_render

IndexMsgTypes == {"Delete", "Toggle", "StartEdit", "UpdateItem", "CompleteEdit"}

SendStale(edits, cap) ==
    \E type \in IndexMsgTypes, index \in 0..cap, s \in edits :
        DispatchAny(Msg(type, index, IF type = "UpdateItem" THEN s ELSE << >>), cap)

\* The component when messages of earlier renders can arrive as well.
NextStale ==
    \/ SendNop(MaxTodos)
    \/ SendUpdate(ListDraftInputs, MaxTodos)
    \/ SendCreate(MaxTodos)
    \/ SendDelete(MaxTodos)
    \/ SendToggle(MaxTodos)
    \/ SendToggleAll(MaxTodos)
    \/ SendClearCompleted(MaxTodos)
    \/ SendStartEdit(MaxTodos)
    \/ SendUpdateItem(ListEditInputs, MaxTodos)
    \/ SendCompleteEdit(MaxTodos)
    \/ SendStale(ListEditInputs, MaxTodos)
    \/ rendered
    \/ change
    \/ Reload

SpecStale == InitList /\ [][NextStale]_vars

----------------------------------------------------------------------------
\* Properties.  In the state right after App::update has handled a message,
\* last is that message and pre holds the fields the handler started from.

Handled(type) == last.type = type /\ ~panicked

\* the positions of a list whose item is not completed
ActivePositions(v) == {k \in 1..Len(v) : ~v[k].completed}

\* the j-th smallest member of a set of positions
NthOf(S, j) == CHOOSE k \in S : Cardinality({m \in S : m <= k}) = j

\* C1: Create on a draft whose trimmed value is non-empty appends exactly one
\* Todo (text = trimmed draft, completed = false, editing = false) at the end,
\* leaves every earlier item as it was and empties the draft.
C1_CreateAppends ==
    (Handled("Create") /\ trim(pre.value) # << >>) =>
        /\ Len(todos) = Len(pre.todos) + 1
        /\ todos[Len(todos)] =
               [text |-> trim(pre.value), completed |-> FALSE, editing |-> FALSE]
        /\ (pre.value = <<" ", "a", " ">> => todos[Len(todos)].text = <<"a">>)
        /\ \A k \in 1..Len(pre.todos) : todos[k] = pre.todos[k]
        /\ value = << >>

C1_Witness ==
    /\ Handled("Create")
    /\ pre.value = <<" ", "a", " ">>
    /\ Len(pre.todos) = 1
    /\ pre.todos[1].editing /\ pre.todos[1].completed
    /\ Len(todos) = 2
    /\ todos[2].text = <<"a">>

\* C2: Create on an empty or whitespace-only draft changes neither the list
\* nor the draft (the draft is not cleared).
C2_CreateBlankNoop ==
    (Handled("Create") /\ trim(pre.value) = << >>) =>
        /\ todos = pre.todos
        /\ value = pre.value
        /\ focus_edit = pre.focus_edit

C2_Witness ==
    /\ Handled("Create")
    /\ pre.value = <<" ">>
    /\ value = <<" ">>
    /\ Len(todos) = 2
    /\ todos = pre.todos

\* C3: ToggleAll sets completed of every item, hidden by the filter or not, to
\* the negation of "all completed" as it was before; texts, editing flags,
\* order and length stay.  From a list with an uncompleted item one ToggleAll
\* gives all completed and the next one all not completed.
C3_ToggleAll ==
    /\ Handled("ToggleAll") =>
        /\ Len(todos) = Len(pre.todos)
        /\ \A k \in 1..Len(todos) :
            /\ todos[k].completed = (ActivePositions(pre.todos) # {})
            /\ todos[k].text = pre.todos[k].text
            /\ todos[k].editing = pre.todos[k].editing
        /\ value = pre.value
    /\ (ActivePositions(todos) # {}) =>
        LET once == update(Self, Msg("ToggleAll", 0, << >>))
            twice == update(once, Msg("ToggleAll", 0, << >>))
        IN  /\ ActivePositions(once.todos) = {}
            /\ Len(once.todos) = Len(todos)
            /\ ActivePositions(twice.todos) = 1..Len(todos)
            /\ Len(twice.todos) = Len(todos)

C3_Witness ==
    /\ Handled("ToggleAll")
    /\ route = "Active"
    /\ Len(pre.todos) = 2
    /\ pre.todos[1].completed /\ ~pre.todos[2].completed
    /\ pre.todos[1].editing
    /\ todos[1].completed /\ todos[2].completed

\* C4: ClearCompleted leaves exactly the subsequence of the items that were
\* not completed, in their order, each with its text and editing flag; no
\* item of the result is completed.
C4_ClearCompleted ==
    Handled("ClearCompleted") =>
        LET kept == ActivePositions(pre.todos)
        IN  /\ Len(todos) = Cardinality(kept)
            /\ \A j \in 1..Len(todos) : todos[j] = pre.todos[NthOf(kept, j)]
            /\ \A j \in 1..Len(todos) : ~todos[j].completed
            /\ value = pre.value

C4_Witness ==
    /\ Handled("ClearCompleted")
    /\ Len(pre.todos) = 3
    /\ ~pre.todos[1].completed /\ pre.todos[2].completed /\ ~pre.todos[3].completed
    /\ pre.todos[1].text # pre.todos[3].text
    /\ pre.todos[3].editing
    /\ todos = << pre.todos[1], pre.todos[3] >>

\* C5: Delete(i) with i below the length n gives the list of length n - 1 that
\* is the old one without position i: earlier items stay in place, later ones
\* move down by one, every remaining item keeps its fields.
C5_Delete ==
    (Handled("Delete") /\ last.index < Len(pre.todos)) =>
        /\ Len(todos) = Len(pre.todos) - 1
        /\ \A k \in 0..(Len(todos) - 1) :
            At(todos, k) = At(pre.todos, IF k < last.index THEN k ELSE k + 1)
        /\ value = pre.value

C5_Witness ==
    /\ Handled("Delete")
    /\ Len(pre.todos) = 3
    /\ last.index = 1
    /\ pre.todos[1] # pre.todos[3]
    /\ pre.route = "Active" /\ pre.todos[1].completed
    /\ todos = << pre.todos[1], pre.todos[3] >>

\* the (text, completed) pairs of a list, in order, as the stored item
Pairs(v) ==
    [kind |-> "json",
     items |-> ToVec([k \in 1..Len(v) |->
                         [text |-> v[k].text, completed |-> v[k].completed]])]

MsgTypes ==
    {"Nop", "Update", "Create", "Delete", "Toggle", "ToggleAll",
     "ClearCompleted", "StartEdit", "UpdateItem", "CompleteEdit"}

\* C6: with storage available, after every update the stored item is the list's
\* (text, completed) pairs in order; it stays so until the next message, and
\* differs from the list only between a startup that found nothing parseable
\* and the first update.
C6_Persisted ==
    /\ (storage /\ last.type \in MsgTypes /\ ~panicked) => local = Pairs(todos)
    /\ storage =>
        \/ local = Pairs(todos)
        \/ local.kind # "json" /\ todos = << >>

C6_Witness ==
    /\ Handled("UpdateItem")
    /\ storage
    /\ local # pre.local
    /\ Len(todos) = 2
    /\ todos[1].editing /\ todos[2].completed
    /\ local = Pairs(todos)

\* C7: a fresh instance built by App::create from what an instance with
\* storage left behind has the same (text, completed) pairs in the same
\* order, no item editing, an empty draft and focus_edit = false.
C7_RoundTrip ==
    (last.type = "create" /\ storage) =>
        /\ Len(todos) = Len(pre.todos)
        /\ \A k \in 1..Len(todos) :
            /\ todos[k].text = pre.todos[k].text
            /\ todos[k].completed = pre.todos[k].completed
            /\ ~todos[k].editing
        /\ value = << >>
        /\ ~focus_edit

C7_Witness ==
    /\ last.type = "create"
    /\ storage
    /\ Len(pre.todos) = 2
    /\ pre.todos[1].editing /\ pre.todos[1].text = << >>
    /\ pre.todos[2].completed
    /\ pre.value = <<" ">>
    /\ Len(todos) = 2

\* C8: App::create starts from the empty list, and does not fail, when storage
\* is unavailable, the key is absent or the item does not parse; a non-empty
\* initial list comes only from a present, parseable item.
C8_StartupFallback ==
    last.type = "create" =>
        /\ ~panicked
        /\ (~storage \/ local.kind # "json") => todos = << >>
        /\ todos # << >> => (storage /\ local.kind = "json")
        /\ (storage /\ local.kind = "json") => Pairs(todos) = local

C8_Witness ==
    /\ last.type = "create"
    /\ storage
    /\ local = Garbage
    /\ todos = << >>
    /\ render_pending

\* the positions of a list that a route accepts
Accepted(v, r) ==
    {k \in 1..Len(v) :
        \/ r = "All"
        \/ r = "Active" /\ ~v[k].completed
        \/ r = "Completed" /\ v[k].completed}

\* C9: for each route the rendered items are all items (All), those not
\* completed (Active) or those completed (Completed), in list order, and the
\* callbacks of a rendered item carry its index in the full list.
C9_VisibleItems ==
    \A r \in AppRoute :
        LET shown == view_main([Self EXCEPT !.route = r]).list
            want == Accepted(todos, r)
        IN  /\ Len(shown) = Cardinality(want)
            /\ \A j \in 1..Len(shown) :
                /\ shown[j].index = NthOf(want, j) - 1
                /\ shown[j].text = todos[NthOf(want, j)].text
                /\ shown[j].completed = todos[NthOf(want, j)].completed
                /\ \A cb \in li_callbacks(shown[j]) :
                    cb.type # "Nop" => cb.index = NthOf(want, j) - 1

C9_Witness ==
    /\ last.type = "rendered"
    /\ route = "Completed"
    /\ Len(todos) = 3
    /\ ~todos[1].completed /\ todos[2].completed /\ todos[3].completed
    /\ todos[3].editing
    /\ Len(view_main(Self).list) = 2
    /\ view_main(Self).list[2].index = 2

\* C10: UpdateItem(i, text) stores exactly the given text in item i, untrimmed
\* and empty or not, and CompleteEdit(i) only clears item i's editing flag:
\* after UpdateItem(i, "") and CompleteEdit(i) item i is still at position i
\* with the empty text and the list is as long as before.
C10_EditKeepsEmpty ==
    /\ (Handled("UpdateItem") /\ last.index < Len(pre.todos)) =>
        /\ Len(todos) = Len(pre.todos)
        /\ \A k \in 0..(Len(todos) - 1) :
            /\ At(todos, k).text =
                  (IF k = last.index THEN last.text ELSE At(pre.todos, k).text)
            /\ At(todos, k).completed = At(pre.todos, k).completed
            /\ At(todos, k).editing = At(pre.todos, k).editing
    /\ (Handled("CompleteEdit") /\ last.index < Len(pre.todos)) =>
        /\ Len(todos) = Len(pre.todos)
        /\ \A k \in 0..(Len(todos) - 1) :
            /\ At(todos, k).text = At(pre.todos, k).text
            /\ At(todos, k).completed = At(pre.todos, k).completed
            /\ At(todos, k).editing =
                  (IF k = last.index THEN FALSE ELSE At(pre.todos, k).editing)
    /\ (Handled("UpdateItem") /\ last.text = << >>) =>
        LET done == update(Self, Msg("CompleteEdit", last.index, << >>))
        IN  /\ ~done.panicked
            /\ Len(done.todos) = Len(pre.todos)
            /\ At(done.todos, last.index).text = << >>
            /\ ~At(done.todos, last.index).editing

C10_Witness ==
    /\ Handled("CompleteEdit")
    /\ last.index = 0
    /\ Len(pre.todos) = 2
    /\ pre.todos[1].text = << >> /\ pre.todos[1].editing
    /\ pre.todos[2].editing
    /\ todos[1].text = << >> /\ ~todos[1].editing
    /\ Len(todos) = 2

\* C11: when StartEdit(i) has just been handled, the rendered() that follows
\* moves the focus to the edit input of item i, whatever other item is in edit
\* mode, and leaves focus_edit false.
C11_FocusStartedItem ==
    [][(Handled("StartEdit") /\ last'.type = "rendered")
          => (focused' = EditInput(last.index) /\ ~focus_edit' /\ ~panicked')]_vars

\* C12: a route change (App::change) replaces the route and nothing else: the
\* list, the draft, focus_edit and the stored item are as before.
C12_ChangeOnlyRoute ==
    last.type = "change" =>
        /\ todos = pre.todos
        /\ value = pre.value
        /\ focus_edit = pre.focus_edit
        /\ local = pre.local
        /\ storage = pre.storage
        /\ ~panicked

C12_Witness ==
    /\ last.type = "change"
    /\ pre.route = "All" /\ route = "Completed"
    /\ Len(todos) = 2
    /\ todos[1].editing /\ ~todos[1].completed
    /\ todos[2].completed
    /\ value = <<" ", "a", " ">>
    /\ storage /\ local = Pairs(todos)

\* C13: whatever the route, "clear completed" is offered exactly when some item
\* of the full list is completed, and the count shown is the number of items
\* not completed, which with the completed count adds up to the list length.
C13_Footer ==
    \A r \in AppRoute :
        LET self == [Self EXCEPT !.route = r]
            footer == view_footer(self)
            done == {k \in 1..Len(todos) : todos[k].completed}
        IN  /\ (Callback("ClearCompleted", 0) \in view_callbacks(self)) <=> (done # {})
            /\ footer.clear_completed <=> (done # {})
            /\ footer.not_completed = Cardinality(ActivePositions(todos))
            /\ footer.completed = Cardinality(done)
            /\ footer.not_completed + footer.completed = Len(todos)

C13_Witness ==
    /\ last.type = "rendered"
    /\ route = "Active"
    /\ Len(todos) = 2
    /\ todos[1].completed /\ ~todos[2].completed
    /\ Callback("ClearCompleted", 0) \in view_callbacks(Self)
    /\ view_footer(Self).not_completed = 1

\* C14: StartEdit(i) sets the editing flag of item i and of no other item, so
\* a second StartEdit on another item, with no CompleteEdit in between, leaves
\* two items in edit mode: "at most one item is editing" is no invariant.
C14_StartEditOnlySets ==
    (Handled("StartEdit") /\ last.index < Len(pre.todos)) =>
        /\ Len(todos) = Len(pre.todos)
        /\ \A k \in 0..(Len(todos) - 1) :
            /\ At(todos, k).editing = (k = last.index \/ At(pre.todos, k).editing)
            /\ At(todos, k).text = At(pre.todos, k).text
            /\ At(todos, k).completed = At(pre.todos, k).completed
        /\ focus_edit
        /\ value = pre.value

C14_Witness ==
    /\ Handled("StartEdit")
    /\ last.index = 0
    /\ Len(pre.todos) = 2
    /\ ~pre.todos[1].editing /\ pre.todos[2].editing
    /\ todos[1].editing /\ todos[2].editing

\* C16: a component created without storage never gets one and never writes the
\* stored item; it starts from the empty list, and every message leaves its
\* list, draft and focus_edit as the same message leaves those of a component
\* in the same state that has storage.
C16_NoStorageSameBehaviour ==
    ~pre.storage =>
        /\ ~storage
        /\ local = pre.local
        /\ last.type = "create" =>
            /\ todos = create(route, TRUE, Absent).todos
            /\ value = create(route, TRUE, Absent).value
            /\ focus_edit = create(route, TRUE, Absent).focus_edit
        /\ last.type \in MsgTypes =>
            LET twin == update([pre EXCEPT !.storage = TRUE], last)
            IN  /\ todos = twin.todos
                /\ value = twin.value
                /\ focus_edit = twin.focus_edit
                /\ panicked = twin.panicked

C16_Witness ==
    /\ Handled("Create")
    /\ ~storage
    /\ Len(pre.todos) = 1
    /\ Len(todos) = 2
    /\ local = StoredList

\* C17 as stated: Update(text) sets the draft to the text and leaves the list
\* alone, and after Update and after Nop the stored item is what it was before.
C17_UpdateStoreIdempotent ==
    (Handled("Update") \/ Handled("Nop")) =>
        /\ todos = pre.todos
        /\ value = (IF last.type = "Update" THEN last.text ELSE pre.value)
        /\ local = pre.local

\* C17: Update(text) sets the draft to the text and leaves the list alone;
\* after Update and after Nop the stored item is what it was before, except
\* that the first message after a startup that found the item absent or
\* unparseable, storage being available, replaces it by the empty list.
C17_UpdateSetsDraft ==
    (Handled("Update") \/ Handled("Nop")) =>
        /\ todos = pre.todos
        /\ focus_edit = pre.focus_edit
        /\ value = (IF last.type = "Update" THEN last.text ELSE pre.value)
        /\ local = (IF pre.storage /\ pre.local.kind # "json"
                    THEN Json_store(<< >>)
                    ELSE pre.local)
        /\ (pre.storage /\ pre.local.kind # "json") => pre.todos = << >>

C17_Witness ==
    /\ Handled("Update")
    /\ last.text = <<" ", "a", " ">>
    /\ value = <<" ", "a", " ">>
    /\ pre.value = << >>
    /\ pre.local = Garbage
    /\ local = Json_store(<< >>)

\* C18: Toggle(i) with i in range flips the completed flag of item i and
\* changes nothing else of the list nor the draft; a second Toggle(i) gives
\* back the list the first one started from.
C18_ToggleFlipsOne ==
    (Handled("Toggle") /\ last.index < Len(pre.todos)) =>
        /\ Len(todos) = Len(pre.todos)
        /\ \A k \in 0..(Len(todos) - 1) :
            /\ At(todos, k).completed =
                   (IF k = last.index THEN ~At(pre.todos, k).completed
                                      ELSE At(pre.todos, k).completed)
            /\ At(todos, k).text = At(pre.todos, k).text
            /\ At(todos, k).editing = At(pre.todos, k).editing
        /\ value = pre.value
        /\ update(Self, last).todos = pre.todos

C18_Witness ==
    /\ Handled("Toggle")
    /\ last.index = 1
    /\ Len(todos) = 2
    /\ pre.todos[2].completed /\ ~todos[2].completed
    /\ todos[2].editing
    /\ todos[1].completed
    /\ value = <<" ">>

\* C19: when rendered() is about to run with focus_edit set, the view holds an
\* edit input (an item that is editing and shown under the route), and the
\* rendered() that ran with focus_edit set focused such an input without failing.
C19_EditInputRendered ==
    /\ (render_pending /\ focus_edit /\ ~panicked) => edit_inputs(Self) # {}
    /\ (last.type = "rendered" /\ pre.focus_edit) =>
        /\ ~panicked
        /\ focused.kind = "edit_input"
        /\ focused.index \in edit_inputs(pre)

C19_Witness ==
    /\ last.type = "rendered"
    /\ pre.focus_edit
    /\ route = "Completed"
    /\ Len(todos) = 2
    /\ todos[1].editing /\ ~todos[1].completed
    /\ focused = EditInput(1)

\* C20: Create with a non-blank draft lengthens the list by one, Delete in
\* range shortens it by one, ClearCompleted by the number of completed items;
\* every other message, a route change and rendered() keep the length; the
\* items that remain keep their order.
C20_LengthAndOrder ==
    LET before == pre.todos
        same(k, j) == /\ todos[k].text = before[j].text
                      /\ todos[k].completed = before[j].completed
                      /\ todos[k].editing = before[j].editing
    IN  /\ Handled("Create") =>
            /\ Len(todos) = Len(before) + (IF trim(pre.value) # << >> THEN 1 ELSE 0)
            /\ \A k \in 1..Len(before) : same(k, k)
        /\ Handled("Delete") =>
            /\ Len(todos) = Len(before) - 1
            /\ \A k \in 1..Len(todos) :
                same(k, IF k <= last.index THEN k ELSE k + 1)
        /\ Handled("ClearCompleted") =>
            /\ Len(todos) =
                   Len(before) - Cardinality({k \in 1..Len(before) : before[k].completed})
            /\ \A k \in 1..Len(todos) : same(k, NthOf(ActivePositions(before), k))
        /\ (Handled("Nop") \/ Handled("Update")) => todos = before
        /\ last.type \in {"change", "rendered"} => todos = before
        /\ (\/ Handled("Toggle") \/ Handled("ToggleAll") \/ Handled("StartEdit")
            \/ Handled("UpdateItem") \/ Handled("CompleteEdit")) =>
            /\ Len(todos) = Len(before)
            /\ \A k \in 1..Len(todos) :
                \/ same(k, k)
                \/ last.type = "ToggleAll"
                    /\ todos[k].text = before[k].text
                    /\ todos[k].editing = before[k].editing
                \/ last.type # "ToggleAll" /\ k = last.index + 1

C20_Witness ==
    /\ Handled("ClearCompleted")
    /\ Len(pre.todos) = 3
    /\ pre.todos[1].completed /\ pre.todos[1].editing
    /\ ~pre.todos[2].completed /\ pre.todos[2].text = << >>
    /\ pre.todos[3].completed
    /\ Len(todos) = 1
    /\ todos[1].text = << >>

\* C15: a Delete, Toggle, StartEdit, UpdateItem or CompleteEdit whose index is
\* not below the list length panics: list, draft, focus_edit and stored item
\* stay as they were and nothing runs afterwards; a message sent by a callback
\* of the view of the current state has its index below the length and does
\* not panic.
C15_OutOfRangePanics ==
    /\ (last.type \in IndexMsgTypes /\ last.index >= Len(pre.todos)) =>
        /\ panicked
        /\ ~render_pending
        /\ todos = pre.todos
        /\ value = pre.value
        /\ focus_edit = pre.focus_edit
        /\ local = pre.local
    /\ (last.type \in MsgTypes
            /\ Callback(last.type, last.index) \in view_callbacks(pre)) =>
        /\ ~panicked
        /\ last.type \in IndexMsgTypes => last.index < Len(pre.todos)
    /\ (panicked /\ last.type \in MsgTypes) =>
        (last.type \in IndexMsgTypes /\ last.index >= Len(pre.todos))

C15_Witness ==
    /\ last.type = "Delete"
    /\ last.index = 1
    /\ Len(pre.todos) = 1
    /\ panicked
    /\ todos = pre.todos
    /\ local = Json_store(pre.todos)

====
